---- MODULE Spec2Model ----
(***************************************************************************)
(* Certificate backend (app.py): the roster index built at startup, the    *)
(* request handlers over it, the certificate files they write, the         *)
(* deferred work they leave behind (a file response still to be streamed,  *)
(* a background mail task still to run) and the feedback store.            *)
(*                                                                         *)
(* A Python str is a sequence of one-character strings.  " " is U+0020 and *)
(* "\t" stands for every other whitespace character str.strip() removes.   *)
(***************************************************************************)
EXTENDS Integers, Sequences, FiniteSets, TLC

VARIABLES
    csv,            \* data/data.csv as pandas reads it
    env,            \* os.environ: which settings are present (non-empty)
    startup,        \* "pending" | "complete" | "raised"
    EMAIL_TO_NAME,  \* the global dict, a function from normalized email to name
    generated,      \* GENERATED_DIR: path -> the name drawn on the page
    store,          \* the feedback collection held by the external store
    calls,          \* the handler calls so far, each with its response
    smtp,           \* the invocations of aiosmtplib.send
    pair,           \* normalisation harness: two raw strings
    keys            \* normalisation harness: their normalized forms

vars == <<csv, env, startup, EMAIL_TO_NAME, generated, store, calls, smtp, pair, keys>>

-----------------------------------------------------------------------------
(* Bounds *)

MaxRows == 2        \* rows of the roster
MaxRequests == 2    \* handler calls in one behaviour
MaxRecords == 1     \* feedback records the store holds at the start
MaxLen == 3         \* length of a raw string in the normalisation harness

-----------------------------------------------------------------------------
(* Python str *)

Space == " "
Tab == "\t"
Whitespace == {Space, Tab}

UpperChars == <<"A", "B", "E", "N", "P">>
LowerChars == <<"a", "b", "e", "n", "p">>

LowerChar(c) ==
    IF \E i \in 1..Len(UpperChars) : UpperChars[i] = c
    THEN LowerChars[CHOOSE i \in 1..Len(UpperChars) : UpperChars[i] = c]
    ELSE c

IsUpper(c) == \E i \in 1..Len(UpperChars) : UpperChars[i] = c

SetMin(S) == CHOOSE x \in S : \A y \in S : x <= y
SetMax(S) == CHOOSE x \in S : \A y \in S : y <= x

\* str.strip(): drops the leading and the trailing run of whitespace
Strip(s) ==
    LET solid == {i \in 1..Len(s) : s[i] \notin Whitespace}
    IN  IF solid = {} THEN <<>> ELSE SubSeq(s, SetMin(solid), SetMax(solid))

\* str.lower()
Lower(s) == [i \in 1..Len(s) |-> LowerChar(s[i])]

NotSpace(c) == c # Space

\* str.replace(" ", ""): drops every U+0020 and nothing else
RemoveSpaces(s) == SelectSeq(s, NotSpace)

\* str.replace(' ', '_')
SpacesToUnderscores(s) == [i \in 1..Len(s) |-> IF s[i] = Space THEN "_" ELSE s[i]]

\* sub in s
Contains(s, sub) ==
    \E i \in 1..(Len(s) - Len(sub) + 1) : SubSeq(s, i, i + Len(sub) - 1) = sub

\* .strip().lower() alone: the interior spaces stay
NormalizeKeepsSpaces(raw) == Lower(Strip(raw))

\* .strip().lower().replace(" ", "")
Normalize(raw) == RemoveSpaces(Lower(Strip(raw)))

-----------------------------------------------------------------------------
(* pandas cells: NaN or a non-empty str (read_csv turns an empty field into NaN) *)

NaN == [isna |-> TRUE, val |-> <<>>]
Cell(s) == [isna |-> FALSE, val |-> s]

\* str(value) of a cell
Str(cell) == IF cell.isna THEN <<"n", "a", "n">> ELSE cell.val

-----------------------------------------------------------------------------
(* Startup: the roster index *)

Put(d, k, v) == [x \in (DOMAIN d) \cup {k} |-> IF x = k THEN v ELSE d[x]]

EmptyDict == [x \in {} |-> <<>>]

\* next((c for c in df.columns if sub in c.lower()), None); 0 is None
FindColumn(columns, sub) ==
    LET hits == {i \in 1..Len(columns) : Contains(Lower(Strip(columns[i])), sub)}
    IN  IF hits = {} THEN 0 ELSE SetMin(hits)

SubEmail == <<"e", "m", "a", "i", "l">>
SubName == <<"n", "a", "m", "e">>

\* the loop body keeping the first row of a key instead of the last
LoadRowFirstWins(d, row, email_col, name_col) ==
    IF row[email_col].isna \/ Normalize(Str(row[email_col])) \in DOMAIN d
    THEN d
    ELSE Put(d, Normalize(Str(row[email_col])), Strip(Str(row[name_col])))

\* the body of the loop over df.iterrows(), for one row
LoadRow(d, row, email_col, name_col) ==
    IF row[email_col].isna
    THEN d
    ELSE Put(d, Normalize(Str(row[email_col])), Strip(Str(row[name_col])))

RECURSIVE LoadRows(_, _, _, _, _)
LoadRows(d, rows, i, email_col, name_col) ==
    IF i > Len(rows)
    THEN d
    ELSE LoadRows(LoadRow(d, rows[i], email_col, name_col), rows, i + 1, email_col, name_col)

\* what startup_event leaves in EMAIL_TO_NAME
LoadRoster(source) ==
    IF ~source.exists THEN EmptyDict
    ELSE IF ~source.readable THEN EmptyDict
    ELSE LET email_col == FindColumn(source.columns, SubEmail)
             name_col == FindColumn(source.columns, SubName)
         IN  IF email_col # 0 /\ name_col # 0
             THEN LoadRows(EmptyDict, source.rows, 1, email_col, name_col)
             ELSE EmptyDict

\* every exception of the load is caught and logged
StartupOutcome(source) == "complete"

startup_event ==
    /\ startup = "pending"
    /\ EMAIL_TO_NAME' = LoadRoster(csv)
    /\ startup' = StartupOutcome(csv)
    /\ UNCHANGED <<csv, env, generated, store, calls, smtp, pair, keys>>

-----------------------------------------------------------------------------
(* Handler calls *)

None == [some |-> FALSE, val |-> <<>>]
Some(v) == [some |-> TRUE, val |-> v]

\* d.get(k)
Get(d, k) == IF k \in DOMAIN d THEN Some(d[k]) ELSE None

\* truth value of an Optional[str]: None and "" are false
Truthy(opt) == opt.some /\ opt.val # <<>>

NoStats == [total_feedback |-> 0, average_rating |-> 0, rating_counts |-> EmptyDict]

\* one handler call and what came of it
NewCall(op, email) ==
    [op |-> op, email |-> email, status |-> 200, detail |-> "", name |-> None,
     has_submitted |-> FALSE, render |-> "none", pdf |-> <<>>, stage |-> "responded",
     read |-> None, delivery |-> "none", data |-> <<>>, stats |-> NoStats]

Ready == startup = "complete" /\ Len(calls) < MaxRequests

SupabaseConfigured == env.SUPABASE_URL /\ env.SUPABASE_KEY

\* f"certificate_{name.replace(' ', '_')}.pdf" under GENERATED_DIR
CertificatePath(name) == <<"certificate_">> \o SpacesToUnderscores(name) \o <<".pdf">>

\* create_certificate: c.save() writes the page with the name drawn on it
WriteCertificate(files, name) == Put(files, CertificatePath(name), name)

(* POST /verify-email *)
HasSubmitted(email, storeOk) ==
    /\ SupabaseConfigured
    /\ storeOk
    /\ \E i \in 1..Len(store) : store[i].email = email

verify_email(data, storeOk) ==
    /\ Ready
    /\ LET email == Normalize(data)
           c == NewCall("verify-email", data)
       IN  calls' = Append(calls,
             IF email \in DOMAIN EMAIL_TO_NAME
             THEN [c EXCEPT !.name = Some(EMAIL_TO_NAME[email]),
                            !.has_submitted = HasSubmitted(email, storeOk),
                            !.detail = "valid"]
             ELSE [c EXCEPT !.status = 404, !.detail = "Email not found"])
    /\ UNCHANGED <<csv, env, startup, EMAIL_TO_NAME, generated, store, smtp, pair, keys>>

(* POST /generate-certificate *)

\* except Exception as e: ... raise HTTPException(status_code=500, detail=str(e))
\* applied to whatever the try block raised, the 404 of line 238 included
GenerateExcept(raised) == 500

generate_certificate_endpoint(data, renderOk) ==
    /\ Ready
    /\ LET email == Normalize(data)
           name == Get(EMAIL_TO_NAME, email)
           c == [NewCall("generate-certificate", data) EXCEPT !.name = name]
       IN  IF ~Truthy(name)
           THEN /\ calls' = Append(calls,
                     [c EXCEPT !.status = GenerateExcept(404), !.detail = "404: Name not found"])
                /\ UNCHANGED generated
           ELSE IF ~renderOk
           THEN /\ calls' = Append(calls,
                     [c EXCEPT !.status = GenerateExcept(500), !.render = "raised",
                               !.detail = "render error"])
                /\ UNCHANGED generated
           ELSE /\ generated' = WriteCertificate(generated, name.val)
                /\ calls' = Append(calls,
                     [c EXCEPT !.render = "ok", !.pdf = CertificatePath(name.val),
                               !.detail = "file", !.stage = "file-pending"])
    /\ UNCHANGED <<csv, env, startup, EMAIL_TO_NAME, store, smtp, pair, keys>>

\* FileResponse: the file is opened and streamed after the handler has returned
FileResponse(i) ==
    /\ i \in 1..Len(calls)
    /\ calls[i].stage = "file-pending"
    /\ calls' = [calls EXCEPT ![i].stage = "file-sent",
                              ![i].read = Some(generated[calls[i].pdf])]
    /\ UNCHANGED <<csv, env, startup, EMAIL_TO_NAME, generated, store, smtp, pair, keys>>

(* POST /send-certificate *)
send_certificate_endpoint(data, renderOk) ==
    /\ Ready
    /\ LET email == Normalize(data)
           name == Get(EMAIL_TO_NAME, email)
           c == [NewCall("send-certificate", data) EXCEPT !.name = name]
       IN  IF ~Truthy(name)
           THEN /\ calls' = Append(calls, [c EXCEPT !.status = 404, !.detail = "Not Found"])
                /\ UNCHANGED generated
           ELSE IF ~renderOk
           THEN /\ calls' = Append(calls,
                     [c EXCEPT !.status = 500, !.render = "raised",
                               !.detail = "Internal Server Error"])
                /\ UNCHANGED generated
           ELSE /\ generated' = WriteCertificate(generated, name.val)
                /\ calls' = Append(calls,
                     [c EXCEPT !.render = "ok", !.pdf = CertificatePath(name.val),
                               !.detail = "sending", !.stage = "task-pending"])
    /\ UNCHANGED <<csv, env, startup, EMAIL_TO_NAME, store, smtp, pair, keys>>

\* if not os.getenv("SMTP_USER") or not os.getenv("SMTP_PASSWORD"): return
NoSmtpCredentials == ~env.SMTP_USER \/ ~env.SMTP_PASSWORD

\* the transport call without the try: its exception leaves the task
DeliveryUncaught(transportOk) == IF transportOk THEN "sent" ELSE "raised"

\* try: await aiosmtplib.send(...) except Exception: logger.error(...)
Delivery(transportOk) == IF transportOk THEN "sent" ELSE "failed"

\* the background task added by send_certificate_endpoint, run after its response
send_email_async(i, transportOk) ==
    /\ i \in 1..Len(calls)
    /\ calls[i].stage = "task-pending"
    /\ IF NoSmtpCredentials
       THEN /\ calls' = [calls EXCEPT ![i].stage = "task-done", ![i].delivery = "skipped"]
            /\ UNCHANGED smtp
       ELSE LET attachment == generated[calls[i].pdf]
            IN  /\ smtp' = Append(smtp, [hostname |-> env.SMTP_HOST,
                                         to |-> Normalize(calls[i].email),
                                         filename |-> calls[i].pdf,
                                         attachment |-> attachment])
                /\ calls' = [calls EXCEPT ![i].stage = "task-done",
                                          ![i].read = Some(attachment),
                                          ![i].delivery = Delivery(transportOk)]
    /\ UNCHANGED <<csv, env, startup, EMAIL_TO_NAME, generated, store, pair, keys>>

-----------------------------------------------------------------------------
(* The feedback store *)

\* POST /feedback: the payload carries data.email and data.rating as given
submit_feedback(email, rating, storeOk) ==
    /\ Ready
    /\ LET c == NewCall("feedback", email)
       IN  IF ~SupabaseConfigured
           THEN /\ calls' = Append(calls,
                     [c EXCEPT !.status = 500, !.detail = "Database not configured"])
                /\ UNCHANGED store
           ELSE IF ~storeOk
           THEN /\ calls' = Append(calls, [c EXCEPT !.status = 500, !.detail = "store error"])
                /\ UNCHANGED store
           ELSE /\ store' = Append(store, [email |-> email, rating |-> rating])
                /\ calls' = Append(calls, [c EXCEPT !.detail = "success"])
    /\ UNCHANGED <<csv, env, startup, EMAIL_TO_NAME, generated, smtp, pair, keys>>

\* item['name'] = EMAIL_TO_NAME.get(email_key, item.get('email'))
Enrich(item) ==
    LET email_key == Normalize(item.email)
    IN  [email |-> item.email, rating |-> item.rating,
         name |-> IF email_key \in DOMAIN EMAIL_TO_NAME
                  THEN EMAIL_TO_NAME[email_key] ELSE item.email]

\* get_all_feedback(): the records with their names, or the 500 it raises
AllFeedback(storeOk) ==
    IF ~SupabaseConfigured THEN [status |-> 500, detail |-> "DB not configured", data |-> <<>>]
    ELSE IF ~storeOk THEN [status |-> 500, detail |-> "store error", data |-> <<>>]
    ELSE [status |-> 200, detail |-> "list",
          data |-> [i \in 1..Len(store) |-> Enrich(store[i])]]

\* GET /admin/feedback
get_all_feedback(storeOk) ==
    /\ Ready
    /\ LET got == AllFeedback(storeOk)
       IN  calls' = Append(calls, [NewCall("admin-feedback", <<>>) EXCEPT
                                      !.status = got.status, !.detail = got.detail,
                                      !.data = got.data])
    /\ UNCHANGED <<csv, env, startup, EMAIL_TO_NAME, generated, store, smtp, pair, keys>>

RECURSIVE SumRatings(_, _)
SumRatings(data, i) == IF i > Len(data) THEN 0 ELSE data[i].rating + SumRatings(data, i + 1)

\* round(x, 2) of the quotient num / den, in hundredths (ties to the even digit)
Round2(num, den) ==
    LET q == (100 * num) \div den
        r == (100 * num) % den
    IN  IF 2 * r < den THEN q
        ELSE IF 2 * r > den THEN q + 1
        ELSE IF q % 2 = 0 THEN q ELSE q + 1

\* the dict the histogram starts from: {1:0, 2:0, 3:0, 4:0, 5:0}
HistogramKeys == 1..5

\* df["rating"].value_counts().to_dict() written over the starting dict
RatingCounts(data) ==
    LET counts == [k \in {data[i].rating : i \in 1..Len(data)} |->
                      Cardinality({i \in 1..Len(data) : data[i].rating = k})]
    IN  [k \in HistogramKeys \cup DOMAIN counts |->
            IF k \in DOMAIN counts THEN counts[k] ELSE 0]

\* the stats dict of get_admin_stats; average_rating is in hundredths
Stats(data) ==
    [total_feedback |-> Len(data),
     average_rating |-> IF Len(data) = 0 THEN 0 ELSE Round2(SumRatings(data, 1), Len(data)),
     rating_counts |-> RatingCounts(data)]

\* GET /admin/stats
get_admin_stats(storeOk) ==
    /\ Ready
    /\ LET got == AllFeedback(storeOk)
           c == NewCall("admin-stats", <<>>)
       IN  calls' = Append(calls,
             IF got.status # 200
             THEN [c EXCEPT !.status = got.status, !.detail = got.detail]
             ELSE [c EXCEPT !.detail = "stats", !.stats = Stats(got.data)])
    /\ UNCHANGED <<csv, env, startup, EMAIL_TO_NAME, generated, store, smtp, pair, keys>>

\* DELETE /admin/feedback/{email}: the store drops the records with that email
delete_feedback(email, storeOk) ==
    /\ Ready
    /\ LET c == NewCall("admin-delete", email)
           Other(rec) == rec.email # email
       IN  IF ~SupabaseConfigured
           THEN /\ calls' = Append(calls,
                     [c EXCEPT !.status = 500, !.detail = "DB not configured"])
                /\ UNCHANGED store
           ELSE IF ~storeOk
           THEN /\ calls' = Append(calls, [c EXCEPT !.status = 500, !.detail = "store error"])
                /\ UNCHANGED store
           ELSE /\ store' = SelectSeq(store, Other)
                /\ calls' = Append(calls, [c EXCEPT !.detail = "deleted"])
    /\ UNCHANGED <<csv, env, startup, EMAIL_TO_NAME, generated, smtp, pair, keys>>

-----------------------------------------------------------------------------
(* Normalisation applied to two raw strings *)

normalize_pair ==
    /\ keys = <<>>
    /\ pair # <<>>
    /\ keys' = <<Normalize(pair[1]), Normalize(pair[2])>>
    /\ UNCHANGED <<csv, env, startup, EMAIL_TO_NAME, generated, store, calls, smtp, pair>>

-----------------------------------------------------------------------------
(* Inputs *)

SeqsUpTo(S, n) == UNION {[1..k -> S] : k \in 0..n}

ColEmail == <<"E", "m", "a", "i", "l">>
ColName == <<" ", "N", "a", "m", "e", " ">>
ColPhone == <<"P", "h", "o", "n", "e">>

EmailCells == {NaN, Cell(<<" ">>), Cell(<<"a">>), Cell(<<" ", "A">>)}
NameCells == {NaN, Cell(<<" ">>), Cell(<<"A", " ", "B">>)}

RosterRows == {<<e, n>> : e \in EmailCells, n \in NameCells}

Roster(columns, rows) ==
    [exists |-> TRUE, readable |-> TRUE, columns |-> columns, rows |-> rows]

\* two attendees whose names differ in a space against an underscore
SampleRows ==
    << <<Cell(<<"a">>), Cell(<<"A", " ", "B">>)>>,
       <<Cell(<<"b">>), Cell(<<"A", "_", "B">>)>> >>

\* a row with a blank name cell and a row with a blank email cell
BlankRows ==
    << <<Cell(<<" ", "A">>), Cell(<<" ">>)>>,
       <<Cell(<<" ">>), Cell(<<"A", " ", "B">>)>> >>

Absent == [exists |-> FALSE, readable |-> FALSE, columns |-> <<>>, rows |-> <<>>]
Unreadable == [exists |-> TRUE, readable |-> FALSE, columns |-> <<>>, rows |-> <<>>]

\* sources that leave the index empty
BrokenSources ==
    {Absent, Unreadable,
     Roster(<<ColPhone, ColName>>, SampleRows), Roster(<<ColEmail, ColPhone>>, SampleRows)}

RawEmails == {<<" ">>, <<"A", " ">>, <<"b">>}
LookupEmails == {<<>>, <<"A", " ">>, <<"b">>}

Ratings == {3, 5, 6}
StoredRatings == {3, 5}
FeedbackEmails == {<<"A", " ">>}

Alphabet == {"a", "A", Space, Tab}

Environment(host, user, password, supabase) ==
    [SMTP_HOST |-> host, SMTP_USER |-> user, SMTP_PASSWORD |-> password,
     SUPABASE_URL |-> supabase, SUPABASE_KEY |-> supabase]

-----------------------------------------------------------------------------
(* The program *)

Boot ==
    /\ startup = "pending"
    /\ EMAIL_TO_NAME = EmptyDict
    /\ generated = EmptyDict
    /\ calls = <<>>
    /\ smtp = <<>>

Init ==
    /\ Boot
    /\ csv \in BrokenSources \cup
               {Roster(<<ColEmail, ColName>>, SampleRows), Roster(<<ColEmail, ColName>>, BlankRows)}
    /\ env \in {Environment(h, u, p, s) : h, u, p, s \in BOOLEAN}
    /\ store \in SeqsUpTo([email : FeedbackEmails, rating : StoredRatings], MaxRecords)
    /\ pair = <<>>
    /\ keys = <<>>

Next ==
    \/ startup_event
    \/ \E data \in RawEmails, storeOk \in BOOLEAN : verify_email(data, storeOk)
    \/ \E data \in RawEmails, renderOk \in BOOLEAN : generate_certificate_endpoint(data, renderOk)
    \/ \E i \in 1..MaxRequests : FileResponse(i)
    \/ \E data \in RawEmails, renderOk \in BOOLEAN : send_certificate_endpoint(data, renderOk)
    \/ \E i \in 1..MaxRequests, transportOk \in BOOLEAN : send_email_async(i, transportOk)
    \/ \E email \in FeedbackEmails, rating \in Ratings, storeOk \in BOOLEAN :
          submit_feedback(email, rating, storeOk)
    \/ \E storeOk \in BOOLEAN : get_all_feedback(storeOk)
    \/ \E storeOk \in BOOLEAN : get_admin_stats(storeOk)
    \/ \E email \in FeedbackEmails, storeOk \in BOOLEAN : delete_feedback(email, storeOk)

Spec == Init /\ [][Next]_vars

(* The certificate endpoints and their deferred work, under every mail configuration *)

InitMail ==
    /\ Boot
    /\ csv \in {Roster(<<ColEmail, ColName>>, SampleRows), Roster(<<ColEmail, ColName>>, BlankRows)}
    /\ env \in {Environment(h, u, p, FALSE) : h, u, p \in BOOLEAN}
    /\ store = <<>>
    /\ pair = <<>>
    /\ keys = <<>>

NextMail ==
    \/ startup_event
    \/ \E data \in RawEmails, renderOk \in BOOLEAN : generate_certificate_endpoint(data, renderOk)
    \/ \E i \in 1..MaxRequests : FileResponse(i)
    \/ \E data \in RawEmails, renderOk \in BOOLEAN : send_certificate_endpoint(data, renderOk)
    \/ \E i \in 1..MaxRequests, transportOk \in BOOLEAN : send_email_async(i, transportOk)

SpecMail == InitMail /\ [][NextMail]_vars

(* Startup over every roster of up to MaxRows rows, then validate requests *)

InitRoster ==
    /\ Boot
    /\ csv \in BrokenSources \cup
               {Roster(<<ColEmail, ColName>>, r) : r \in SeqsUpTo(RosterRows, MaxRows)}
    /\ env = Environment(TRUE, TRUE, TRUE, FALSE)
    /\ store = <<>>
    /\ pair = <<>>
    /\ keys = <<>>

NextRoster ==
    \/ startup_event
    \/ \E data \in LookupEmails : verify_email(data, TRUE)

SpecRoster == InitRoster /\ [][NextRoster]_vars

(* Normalisation over every pair of raw strings of up to MaxLen characters *)

InitNorm ==
    /\ Boot
    /\ csv = Absent
    /\ env = Environment(FALSE, FALSE, FALSE, FALSE)
    /\ store = <<>>
    /\ pair \in SeqsUpTo(Alphabet, MaxLen) \X SeqsUpTo(Alphabet, MaxLen)
    /\ keys = <<>>

NextNorm == normalize_pair

SpecNorm == InitNorm /\ [][NextNorm]_vars

-----------------------------------------------------------------------------
(* Properties *)

Calls == 1..Len(calls)
Started == startup # "pending"

IsKnown(data) == Normalize(data) \in DOMAIN EMAIL_TO_NAME

\* C1: a render-certificate request whose normalized email is not in the index is
\* answered 404, and a 500 is returned only when rendering itself failed.
C1_UnknownEmailIs404 ==
    \A i \in Calls :
        calls[i].op = "generate-certificate" =>
            /\ ~IsKnown(calls[i].email) => calls[i].status = 404
            /\ calls[i].status = 500 => calls[i].render = "raised"

\* the rows of the source whose email cell normalizes to key
RowsFor(key) ==
    LET email_col == FindColumn(csv.columns, SubEmail)
    IN  {r \in 1..Len(csv.rows) :
            ~csv.rows[r][email_col].isna /\ Normalize(csv.rows[r][email_col].val) = key}

NameOfRow(r) == Strip(Str(csv.rows[r][FindColumn(csv.columns, SubName)]))

HasColumns ==
    /\ csv.exists
    /\ csv.readable
    /\ FindColumn(csv.columns, SubEmail) # 0
    /\ FindColumn(csv.columns, SubName) # 0

\* C2: with email and name columns found, a validate request is answered with the name
\* of the last row whose normalized email equals the normalized input, and not-found
\* when there is no such row; the index holds that same name under the key.
C2_LastRowWins ==
    (Started /\ HasColumns) =>
        /\ \A key \in DOMAIN EMAIL_TO_NAME :
              RowsFor(key) # {} /\ EMAIL_TO_NAME[key] = NameOfRow(SetMax(RowsFor(key)))
        /\ \A i \in Calls :
              calls[i].op = "verify-email" =>
                  LET rows == RowsFor(Normalize(calls[i].email))
                  IN  IF rows = {}
                      THEN calls[i].status = 404
                      ELSE /\ calls[i].status = 200
                           /\ calls[i].name = Some(NameOfRow(SetMax(rows)))

\* a validate request answered with the last of two rows that carry different names
C2_Witness ==
    \E i \in Calls :
        /\ calls[i].op = "verify-email"
        /\ calls[i].status = 200
        /\ \E r1, r2 \in RowsFor(Normalize(calls[i].email)) :
              r1 < r2 /\ NameOfRow(r1) # NameOfRow(r2) /\ calls[i].name = Some(NameOfRow(r2))

HasWhitespace(s) == \E i \in 1..Len(s) : s[i] \in Whitespace
HasSpace(s) == \E i \in 1..Len(s) : s[i] = Space
HasUpper(s) == \E i \in 1..Len(s) : IsUpper(s[i])

NotWhitespace(c) == c \notin Whitespace

\* s with every whitespace character dropped and every letter lowered
Squeeze(s) == Lower(SelectSeq(s, NotWhitespace))

\* C3 as stated: a normalized string holds no whitespace character of any kind and no
\* uppercase letter, and two raw strings that differ only in letter case and in
\* whitespace anywhere normalize to the same key.
C3_NoWhitespaceLeft ==
    keys # <<>> =>
        /\ \A k \in 1..2 : ~HasWhitespace(keys[k]) /\ ~HasUpper(keys[k])
        /\ Squeeze(pair[1]) = Squeeze(pair[2]) => keys[1] = keys[2]

InsertAt(s, i, c) == SubSeq(s, 1, i) \o <<c>> \o SubSeq(s, i + 1, Len(s))

\* y is x with one space put in anywhere, one whitespace character put in front or
\* behind, or the case of one letter changed
OneEdit(x, y) ==
    \/ \E i \in 0..Len(x) : y = InsertAt(x, i, Space)
    \/ \E c \in Whitespace : y = <<c>> \o x \/ y = x \o <<c>>
    \/ /\ Len(x) = Len(y)
       /\ \E i \in 1..Len(x) :
             /\ LowerChar(x[i]) = LowerChar(y[i])
             /\ \A j \in 1..Len(x) : j # i => x[j] = y[j]

\* C3 amended: a normalized string holds no space (U+0020), no uppercase letter and no
\* leading or trailing whitespace, and two raw strings that differ in one space
\* anywhere, in one leading or trailing whitespace character or in the case of one
\* letter normalize to the same key.
C3_NoSpaceLeft ==
    keys # <<>> =>
        /\ \A k \in 1..2 :
              /\ ~HasSpace(keys[k])
              /\ ~HasUpper(keys[k])
              /\ keys[k] # <<>> =>
                    keys[k][1] \notin Whitespace /\ keys[k][Len(keys[k])] \notin Whitespace
        /\ (OneEdit(pair[1], pair[2]) \/ OneEdit(pair[2], pair[1])) => keys[1] = keys[2]

\* an interior space and an uppercase letter normalized away
C3_Witness ==
    /\ keys # <<>>
    /\ pair[1] = <<"A", Space, "a">>
    /\ pair[2] = <<"A", "a">>
    /\ keys[1] = <<"a", "a">>
    /\ keys[2] = <<"a", "a">>

\* C4: the index never holds the empty string as a key, no row with a missing email
\* adds an entry, and a validate request with an empty or whitespace-only email is
\* answered not-found.
C4_NoEmptyKey ==
    Started =>
        /\ <<>> \notin DOMAIN EMAIL_TO_NAME
        /\ \A key \in DOMAIN EMAIL_TO_NAME : HasColumns /\ RowsFor(key) # {}
        /\ \A i \in Calls :
              (calls[i].op = "verify-email" /\ Normalize(calls[i].email) = <<>>) =>
                  calls[i].status = 404

CredentialsAbsent == ~env.SMTP_HOST \/ ~env.SMTP_USER \/ ~env.SMTP_PASSWORD

\* C5: with the mail host, user or password absent, Send returns as a no-op and the
\* transport is never invoked.
C5_NoTransportWithoutCredentials ==
    CredentialsAbsent =>
        /\ smtp = <<>>
        /\ \A i \in Calls : calls[i].stage = "task-done" => calls[i].delivery = "skipped"

\* C6: with the source absent, unreadable or lacking an email or a name column,
\* startup completes without raising, the index is empty and every validate, render
\* and send request is answered not-found.
C6_BrokenSourceNotFound ==
    (Started /\ ~HasColumns) =>
        /\ startup = "complete"
        /\ EMAIL_TO_NAME = EmptyDict
        /\ \A i \in Calls :
              calls[i].op \in {"verify-email", "generate-certificate", "send-certificate"} =>
                  calls[i].status = 404

Scheduled(c) == c.stage \in {"task-pending", "task-done"}

C8_FixedHistogram ==
    (calls # <<>> /\ calls[Len(calls)].op = "admin-stats" /\ calls[Len(calls)].status = 200) =>
        LET stats == calls[Len(calls)].stats
        IN  /\ stats.total_feedback = Len(store)
            /\ DOMAIN stats.rating_counts = 1..5
            /\ \A k \in 1..5 :
                  stats.rating_counts[k] =
                      Cardinality({i \in 1..Len(store) : store[i].rating = k})

\* C9: no other call writes a request's artifact path between its render and the read
\* of the artifact, so what waits at the path, and what is then streamed or attached,
\* is the certificate drawn for the request's own display name.
C9_OwnArtifact ==
    \A i \in Calls :
        /\ calls[i].stage \in {"file-pending", "task-pending"} =>
              generated[calls[i].pdf] = calls[i].name.val
        /\ (calls[i].stage \in {"file-sent", "task-done"} /\ calls[i].read.some) =>
              calls[i].read.val = calls[i].name.val

\* an answer that reports the email as not in the roster
NotFound(c) == c.status = 404 \/ c.detail = "404: Name not found"

\* C10: validate answers valid exactly when render and send for the same email do not
\* answer not-found.
C10_EndpointsAgree ==
    \A i, j \in Calls :
        (/\ calls[i].op = "verify-email"
         /\ calls[j].op \in {"generate-certificate", "send-certificate"}
         /\ calls[i].email = calls[j].email) =>
            (calls[i].status = 200 <=> ~NotFound(calls[j]))

====
